---- MODULE Spec2Model ----
(***************************************************************************)
(* Result aggregation and caching pipeline of grep_app_mcp:                *)
(*   - the file cache (cache.ts: generateCacheKey, getCachedData,          *)
(*     cacheData, findCacheFiles, cleanupCache),                           *)
(*   - the hit aggregate (hits.ts: addHit, mergeHits),                     *)
(*   - the paginated searches (grep-app-client.ts searchCode and the       *)
(*     searchTool of search.ts),                                           *)
(*   - batch retrieval (batch-retrieval.ts).                               *)
(*                                                                         *)
(* Conventions.  Strings that the code only compares are TLA+ strings.     *)
(* A repository or path string is the tuple of its '/'-separated segments. *)
(* An optional field is <<>> (undefined) or <<v>>.  Times are milliseconds *)
(* (Date.now()); sizes are KiB, so that 5 GiB fits a 32-bit integer.       *)
(***************************************************************************)
EXTENDS Integers, Sequences, FiniteSets, TLC

VARIABLES
    files,      \* the cache directory: cache key -> persisted record
    now,        \* Date.now()
    ret,        \* the last completed call: its arguments and what it returned
    call,       \* the search call in flight (its locals and position)
    done,       \* searches that returned: query -> the finish time and the tool
    keyIn,      \* inputs of the key-derivation check
    hitsIn,     \* inputs of the hit-aggregate check: two provider hit lists
    fetches     \* page fetches made by the search in flight (where counted)

vars == <<files, now, ret, call, done, keyIn, hitsIn, fetches>>

None == <<>>
Some(x) == <<x>>

RECURSIVE Perms(_)
Perms(S) == IF S = {} THEN {<<>>}
            ELSE UNION {{<<x>> \o p : p \in Perms(S \ {x})} : x \in S}

RECURSIVE SumSeq(_)
SumSeq(s) == IF s = <<>> THEN 0 ELSE Head(s) + SumSeq(Tail(s))

Range(s) == {s[i] : i \in 1..Len(s)}

Min(a, b) == IF a < b THEN a ELSE b

(***************************************************************************)
(* Program constants                                                       *)
(***************************************************************************)
CACHE_TTL == 24 * 60 * 60 * 1000            \* ms
MAX_CACHE_SIZE == 5 * 1024 * 1024           \* KiB (5 * 1024 * 1024 * 1024 bytes)

(***************************************************************************)
(* Bounds of the model                                                     *)
(***************************************************************************)
MaxSlack == 1                               \* the clock runs to CACHE_TTL + MaxSlack
MaxNow == CACHE_TTL + MaxSlack
Instants == {0, CACHE_TTL, MaxNow}          \* the readings of the clock

Queries == {"foo", "Foo", "foo "}           \* differ in case / whitespace only

(***************************************************************************)
(* Cache keys                                                              *)
(***************************************************************************)
\* crypto.createHash('md5').update(text).digest('hex'): an opaque digest,
\* collision-free on the texts of the model.
Md5(text) == <<"md5", text>>

\* A JSON object text is the list of its members in insertion order.
GenerateCacheKeyWithPage(keyObj) ==
    Md5(<< <<"query", keyObj.query>> >> \o
        (IF keyObj.page = None THEN <<>> ELSE << <<"page", ToString(keyObj.page[1])>> >>))

\* cache.ts generateCacheKey: JSON.stringify({ query: keyObj.query })
GenerateCacheKey(keyObj) == Md5(<< <<"query", keyObj.query>> >>)

\* grep-app-client.ts getCacheKey: JSON.stringify({ page, ...args })
GetCacheKey(page, args) ==
    Md5(<< <<"page", ToString(page)>>,
           <<"query", args.query>>,
           <<"caseSensitive", ToString(args.caseSensitive)>> >>)

(***************************************************************************)
(* The cache directory                                                     *)
(***************************************************************************)
Remove(F, k) == [x \in DOMAIN F \ {k} |-> F[x]]
Put(F, k, v) == [x \in DOMAIN F \cup {k} |-> IF x = k THEN v ELSE F[x]]
EmptyDir == [x \in {} |-> None]

\* fs.readdir(CACHE_DIR): the names in whatever order the file system lists them
Readdir(F) == Perms(DOMAIN F)

TotalSize(F, names) == SumSeq([i \in 1..Len(names) |-> F[names[i]].bytes])

\* Array.prototype.sort by mtime (stable: ties keep the listing order)
RECURSIVE InsertByMtime(_, _, _)
InsertByMtime(F, sorted, name) ==
    IF sorted = <<>> THEN <<name>>
    ELSE IF F[name].mtime < F[Head(sorted)].mtime
         THEN <<name>> \o sorted
         ELSE <<Head(sorted)>> \o InsertByMtime(F, Tail(sorted), name)

RECURSIVE SortByMtime(_, _)
SortByMtime(F, names) ==
    IF names = <<>> THEN <<>>
    ELSE InsertByMtime(F, SortByMtime(F, SubSeq(names, 1, Len(names) - 1)),
                       names[Len(names)])

RECURSIVE InsertByMtimeDesc(_, _, _)
InsertByMtimeDesc(F, sorted, name) ==
    IF sorted = <<>> THEN <<name>>
    ELSE IF F[name].mtime > F[Head(sorted)].mtime
         THEN <<name>> \o sorted
         ELSE <<Head(sorted)>> \o InsertByMtimeDesc(F, Tail(sorted), name)

\* the while loop of cleanupCache: shift the oldest, unlink it, subtract its size
RECURSIVE EvictOldest(_, _, _)
EvictOldest(F, cacheFiles, totalSize) ==
    IF totalSize > MAX_CACHE_SIZE /\ Len(cacheFiles) > 0
    THEN EvictOldest(Remove(F, Head(cacheFiles)), Tail(cacheFiles),
                     totalSize - F[Head(cacheFiles)].bytes)
    ELSE F

RECURSIVE SortByMtimeDesc(_, _)
SortByMtimeDesc(F, names) ==
    IF names = <<>> THEN <<>>
    ELSE InsertByMtimeDesc(F, SortByMtimeDesc(F, SubSeq(names, 1, Len(names) - 1)),
                           names[Len(names)])

CleanupCacheNewestFirst(F, listing) ==
    LET totalSize == TotalSize(F, listing)
    IN  IF totalSize > MAX_CACHE_SIZE
        THEN EvictOldest(F, SortByMtimeDesc(F, listing), totalSize)
        ELSE F

\* cache.ts cleanupCache, given the listing readdir returned
CleanupCache(F, listing) ==
    LET totalSize == TotalSize(F, listing)
    IN  IF totalSize > MAX_CACHE_SIZE
        THEN EvictOldest(F, SortByMtime(F, listing), totalSize)
        ELSE F

GetCachedDataNoExpiry(F, t, cacheKey) ==
    IF cacheKey \notin DOMAIN F
    THEN [entry |-> None, files |-> F]
    ELSE [entry |-> Some(F[cacheKey].entry), files |-> F]

\* cache.ts getCachedData: the entry (or null), and the directory afterwards
GetCachedData(F, t, cacheKey) ==
    IF cacheKey \notin DOMAIN F
    THEN [entry |-> None, files |-> F]                   \* readFile throws: catch
    ELSE LET entry == F[cacheKey].entry
         IN  IF t - entry.timestamp > CACHE_TTL
             THEN [entry |-> None, files |-> Remove(F, cacheKey)]
             ELSE [entry |-> Some(entry), files |-> F]

\* The record cacheData / cacheResults writes; bytes is the length of
\* JSON.stringify(data) (the envelope of the entry is below one KiB).
Record(data, t, bytes, query) ==
    [entry |-> [data |-> data, timestamp |-> t, size |-> bytes, query |-> query],
     mtime |-> t, bytes |-> bytes]

WriteFileNoQuery(F, t, cacheKey, data, bytes, query) ==
    Put(F, cacheKey, Record(data, t, bytes, None))

\* fs.writeFile(cacheFile, JSON.stringify(entry)) of cacheData
WriteFile(F, t, cacheKey, data, bytes, query) ==
    Put(F, cacheKey, Record(data, t, bytes, query))

\* cache.ts cacheData: the directories it can leave, one per listing order
CacheData(F, t, cacheKey, data, bytes, query) ==
    LET written == WriteFile(F, t, cacheKey, data, bytes, query)
    IN  {CleanupCache(written, listing) : listing \in Readdir(written)}

\* ---- the same calls when the file system fails or another call interferes ----
\* what can go wrong inside one cacheData call: nothing; writeFile rejects;
\* readdir rejects; a stat rejects with an I/O error; another call removes the
\* listed record `victim` (one of names, the records other than the one the
\* call writes) before the pass stats it, or before the pass unlinks it
NoFault == [kind |-> "none"]
FaultsOn(names) ==
    {NoFault, [kind |-> "writeFile"], [kind |-> "readdir"], [kind |-> "stat"]}
    \cup [kind : {"statGone", "unlinkGone"}, victim : names]

TryRethrow(threw) == [raised |-> threw, logged |-> threw]

\* try { ... } catch (error) { logger.error(...) }: nothing leaves the block
TryCatch(threw) == [raised |-> FALSE, logged |-> threw]

\* the while loop of cleanupCache when the record `victim` is gone: unlink of
\* it rejects and the loop is left with the records not yet unlinked
RECURSIVE EvictUntilGone(_, _, _, _)
EvictUntilGone(F, cacheFiles, totalSize, victim) ==
    IF totalSize > MAX_CACHE_SIZE /\ Len(cacheFiles) > 0
    THEN IF Head(cacheFiles) = victim
         THEN [threw |-> TRUE, files |-> Remove(F, victim)]
         ELSE EvictUntilGone(Remove(F, Head(cacheFiles)), Tail(cacheFiles),
                             totalSize - F[Head(cacheFiles)].bytes, victim)
    ELSE [threw |-> FALSE, files |-> Remove(F, victim)]

\* cache.ts cleanupCache under a fault: whether the pass logged 'Cache cleanup
\* failed', and the directory it leaves
CleanupCacheWith(F, listing, fault) ==
    LET totalSize == TotalSize(F, listing)
        pass == CASE fault.kind = "readdir" -> [threw |-> TRUE, files |-> F]
                  [] fault.kind = "stat" -> [threw |-> TRUE, files |-> F]
                  [] fault.kind = "statGone" ->
                        [threw |-> TRUE, files |-> Remove(F, fault.victim)]
                  [] fault.kind = "unlinkGone" ->
                        IF totalSize > MAX_CACHE_SIZE
                        THEN EvictUntilGone(F, SortByMtime(F, listing), totalSize,
                                            fault.victim)
                        ELSE [threw |-> FALSE, files |-> Remove(F, fault.victim)]
                  [] OTHER -> [threw |-> FALSE, files |-> CleanupCache(F, listing)]
    IN  [raised |-> TryCatch(pass.threw).raised,
         logged |-> TryCatch(pass.threw).logged,
         files |-> pass.files]

\* cache.ts cacheData under a fault: whether it raised to its caller, whether
\* it or its cleanup pass logged an error, and the directory afterwards
CacheDataWith(F, t, cacheKey, data, bytes, query, fault) ==
    IF fault.kind = "writeFile"
    THEN {[raised |-> TryCatch(TRUE).raised, logged |-> TRUE, cleanupFailed |-> FALSE,
           files |-> F]}
    ELSE LET written == WriteFile(F, t, cacheKey, data, bytes, query)
         IN  {[raised |-> TryCatch(CleanupCacheWith(written, listing, fault).raised).raised,
               logged |-> CleanupCacheWith(written, listing, fault).logged,
               cleanupFailed |-> CleanupCacheWith(written, listing, fault).logged,
               files |-> CleanupCacheWith(written, listing, fault).files] :
                 listing \in Readdir(written)}

\* grep-app-client.ts cacheResults: no query field; cleanup runs in the background
CacheResults(F, t, cacheKey, results, bytes) ==
    Put(F, cacheKey, Record(results, t, bytes, None))

\* lower-casing and trimming of the query strings of the model
Normalize(q) == IF q \in {"Foo", "foo "} THEN "foo" ELSE q

FindCacheFilesNormalized(F, query, listing) ==
    SelectSeq(listing, LAMBDA name :
        /\ F[name].entry.query # None
        /\ Normalize(F[name].entry.query[1]) = Normalize(query))

\* cache.ts findCacheFiles, given the listing readdir returned
FindCacheFiles(F, query, listing) ==
    SelectSeq(listing, LAMBDA name : F[name].entry.query = Some(query))

(***************************************************************************)
(* The hit aggregate (hits.ts).  IHits.hits is a JavaScript object: its    *)
(* keys iterate in insertion order, so it is a sequence of                 *)
(* [repo, paths], paths a sequence of [path, lines]; lines maps a line     *)
(* number to the matched line.                                             *)
(***************************************************************************)
CreateHits == <<>>

NoLines == [n \in {} |-> ""]

\* parseSnippet: the rows whose <pre> holds a <mark>, by line number
RECURSIVE ParseSnippet(_)
ParseSnippet(snippet) ==
    IF snippet = <<>> THEN NoLines
    ELSE LET row  == snippet[Len(snippet)]
             rest == ParseSnippet(SubSeq(snippet, 1, Len(snippet) - 1))
         IN  IF row.mark
             THEN [n \in DOMAIN rest \cup {row.lineno} |->
                      IF n = row.lineno THEN row.text ELSE rest[n]]
             ELSE rest

AssignLinesConcat(target, source) ==
    [n \in DOMAIN target \cup DOMAIN source |->
        IF n \in DOMAIN source
        THEN (IF n \in DOMAIN target THEN target[n] \o source[n] ELSE source[n])
        ELSE target[n]]

AssignLinesReplace(target, source) == source

\* Object.assign(target, source) on line maps
AssignLines(target, source) ==
    [n \in DOMAIN target \cup DOMAIN source |->
        IF n \in DOMAIN source THEN source[n] ELSE target[n]]

RepoIndex(hits, repo) ==
    IF \E i \in 1..Len(hits) : hits[i].repo = repo
    THEN CHOOSE i \in 1..Len(hits) : hits[i].repo = repo
    ELSE 0

PathIndex(paths, path) ==
    IF \E i \in 1..Len(paths) : paths[i].path = path
    THEN CHOOSE i \in 1..Len(paths) : paths[i].path = path
    ELSE 0

\* hits[repo][path] = Object.assign(hits[repo][path] || {}, lines), creating
\* the repo and the path at the end of the key order when they are new
SetLines(hits, repo, path, lines) ==
    LET h1 == IF RepoIndex(hits, repo) = 0
              THEN Append(hits, [repo |-> repo, paths |-> <<>>])
              ELSE hits
        r  == RepoIndex(h1, repo)
        p1 == IF PathIndex(h1[r].paths, path) = 0
              THEN Append(h1[r].paths, [path |-> path, lines |-> NoLines])
              ELSE h1[r].paths
        p  == PathIndex(p1, path)
        p2 == [p1 EXCEPT ![p].lines = AssignLines(p1[p].lines, lines)]
    IN  [h1 EXCEPT ![r].paths = p2]

\* hits.ts addHit
AddHit(hits, repo, path, snippet) == SetLines(hits, repo, path, ParseSnippet(snippet))

RECURSIVE AddHits(_, _)
AddHits(hits, hitData) ==
    IF hitData = <<>> THEN hits
    ELSE AddHits(AddHit(hits, Head(hitData).repo, Head(hitData).path,
                        Head(hitData).snippet),
                 Tail(hitData))

RECURSIVE MergePaths(_, _, _)
MergePaths(target, repo, paths) ==
    IF paths = <<>> THEN target
    ELSE MergePaths(SetLines(target, repo, Head(paths).path, Head(paths).lines),
                    repo, Tail(paths))

\* hits.ts mergeHits
RECURSIVE MergeHits(_, _)
MergeHits(target, source) ==
    IF source = <<>> THEN target
    ELSE LET t1 == IF RepoIndex(target, Head(source).repo) = 0
                   THEN Append(target, [repo |-> Head(source).repo, paths |-> <<>>])
                   ELSE target
         IN  MergeHits(MergePaths(t1, Head(source).repo, Head(source).paths),
                       Tail(source))

(***************************************************************************)
(* The search provider (grep.app) and the file host (GitHub): what they    *)
(* answer is an input of the pipeline.                                     *)
(***************************************************************************)
PER_PAGE == 20          \* per_page of the provider request, and 20 * page
MAX_PAGE == 100         \* while (nextPage && nextPage <= 100)
RESULT_CAP == 1000      \* Math.min(count, 1000)
TOOL_MAX_PAGE == 5      \* searchTool: page >= 5 ends the loop
DEFAULT_PAGE_SIZE == 10 \* batchRetrieveFiles: pageSize = 10
DEFAULT_PAGE == 1       \* batchRetrieveFiles: page = 1

R1 == <<"o1", "r1">>
R2 == <<"o2", "r1">>                 \* the same repository name under another owner
R3 == <<"gitlab.com", "o3", "r3">>   \* not of the form owner/repo
R4 == <<"o4", "r4">>

Row(lineno, text, mark) == [lineno |-> lineno, text |-> text, mark |-> mark]

\* one hit of a provider response: repo.raw, path.raw, content.snippet
Hit(repo, file, lineno) ==
    [repo |-> repo, path |-> <<file>>,
     snippet |-> <<Row(lineno, "match", TRUE), Row(lineno + 1, "context", FALSE)>>]

ArgsSet == [query : Queries, caseSensitive : BOOLEAN]

\* The provider's answer to one page request: facets.count, facets.pages and
\* hits.hits.  "foo" has twelve files on one page, "Foo" three pages.
Provider(args, page) ==
    CASE args.query = "foo" /\ ~args.caseSensitive ->
           [count |-> 12, pages |-> 1,
            hits |-> IF page # 1 THEN <<>> ELSE
                <<Hit(R1, "a", 1), Hit(R1, "b", 1), Hit(R1, "c", 1), Hit(R1, "d", 1),
                  Hit(R1, "e", 1), Hit(R2, "a", 1), Hit(R2, "b", 1), Hit(R2, "c", 1),
                  Hit(R2, "d", 1), Hit(R3, "a", 1), Hit(R3, "b", 1), Hit(R4, "a", 1)>>]
      [] args.query = "foo" /\ args.caseSensitive ->
           [count |-> 2, pages |-> 1,
            hits |-> IF page # 1 THEN <<>> ELSE <<Hit(R1, "a", 1), Hit(R1, "b", 1)>>]
      [] args.query = "Foo" /\ ~args.caseSensitive ->
           [count |-> 45, pages |-> 3,
            hits |-> CASE page = 1 -> <<Hit(R1, "a", 1), Hit(R2, "a", 1)>>
                       [] page = 2 -> <<Hit(R1, "a", 3), Hit(R1, "c", 1)>>
                       [] page = 3 -> <<Hit(R4, "a", 1)>>
                       [] OTHER -> <<>>]
      [] args.query = "Foo" /\ args.caseSensitive ->
           [count |-> 21, pages |-> 2,
            hits |-> CASE page = 1 -> <<Hit(R2, "a", 1)>>
                       [] page = 2 -> <<Hit(R2, "b", 1)>>
                       [] OTHER -> <<>>]
      [] OTHER -> [count |-> 0, pages |-> 0, hits |-> <<>>]

\* octokit repos.getContent for one request: the file's content, or an error
GitHubFile(up, req) ==
    IF ~up
    THEN [content |-> None, path |-> req.path, owner |-> req.owner, repo |-> req.repo,
          error |-> Some("request failed")]
    ELSE IF req.path = <<"d">>
    THEN [content |-> None, path |-> req.path, owner |-> req.owner, repo |-> req.repo,
          error |-> Some("Not Found")]
    ELSE [content |-> Some(<<req.owner, req.repo, req.path>>), path |-> req.path,
          owner |-> req.owner, repo |-> req.repo, error |-> None]

\* github-utils.ts fetchGitHubFiles: Promise.all keeps the order of the requests
FetchGitHubFiles(up, requests) ==
    [i \in 1..Len(requests) |-> GitHubFile(up, requests[i])]

\* length of JSON.stringify(results), in KiB
RECURSIVE CountFiles(_)
CountFiles(hits) ==
    IF hits = <<>> THEN 0 ELSE Len(Head(hits).paths) + CountFiles(Tail(hits))

ResultsBytes(results) == 1 + CountFiles(results.hits)

(***************************************************************************)
(* Batch retrieval (batch-retrieval.ts)                                    *)
(***************************************************************************)
\* flattenHits: one NumberedHit per (repo, path), numbered from 1 in key order
RECURSIVE FlattenFrom(_, _)
FlattenFrom(hits, i) ==
    IF hits = <<>> THEN <<>>
    ELSE LET paths == Head(hits).paths
         IN  [k \in 1..Len(paths) |->
                 [number |-> i + k - 1, repo |-> Head(hits).repo, path |-> paths[k].path]]
             \o FlattenFrom(Tail(hits), i + Len(paths))

FlattenHits(hits) == FlattenFrom(hits, 1)

\* getQueryResults: the hits of the first matching record, or null
GetQueryResults(F, t, query, listing) ==
    LET queryFiles == FindCacheFiles(F, query, listing)
    IN  IF Len(queryFiles) = 0
        THEN [hits |-> None, files |-> F]
        ELSE LET got == GetCachedData(F, t, queryFiles[1])
             IN  IF got.entry = None
                 THEN [hits |-> None, files |-> got.files]
                 ELSE [hits |-> Some(got.entry[1].data.hits), files |-> got.files]

\* parseGitHubRepo: /^(?:https?:\/\/github\.com\/)?([\w.-]+)\/([\w.-]+)(?:\.git)?$/
ParseGitHubRepo(repoString) ==
    IF Len(repoString) = 2
    THEN Some([owner |-> repoString[1], repo |-> repoString[2]])
    ELSE None

Failure(msg, arg) ==
    [success |-> FALSE, files |-> <<>>, error |-> Some([msg |-> msg, arg |-> arg]),
     page |-> None, pageSize |-> None, totalPages |-> None, totalResults |-> None]

\* hitsToProcess: allNumberedHits.filter(h => resultSet.has(h.number))
FilterHits(allNumberedHits, resultNumbers) ==
    IF resultNumbers # None /\ Len(resultNumbers[1]) > 0
    THEN SelectSeq(allNumberedHits, LAMBDA h : h.number \in Range(resultNumbers[1]))
    ELSE allNumberedHits

PageSliceFromPage(hitsToProcess, page, pageSize) ==
    SubSeq(hitsToProcess, page * pageSize + 1,
           Min(page * pageSize + pageSize, Len(hitsToProcess)))

\* hitsToProcess.slice(startIndex, startIndex + pageSize), startIndex = (page - 1) * pageSize
PageSlice(hitsToProcess, page, pageSize) ==
    LET startIndex == (page - 1) * pageSize
    IN  SubSeq(hitsToProcess, startIndex + 1,
               Min(startIndex + pageSize, Len(hitsToProcess)))

\* Math.ceil(totalResults / pageSize)
TotalPages(totalResults, pageSize) == (totalResults + pageSize - 1) \div pageSize

\* the GitHubFileRequest of every page hit whose repo parses
RECURSIVE FileRequests(_)
FileRequests(pageHits) ==
    IF pageHits = <<>> THEN <<>>
    ELSE LET repoInfo == ParseGitHubRepo(Head(pageHits).repo)
         IN  (IF repoInfo = None THEN <<>>
              ELSE <<[owner |-> repoInfo[1].owner, repo |-> repoInfo[1].repo,
                      path |-> Head(pageHits).path]>>)
             \o FileRequests(Tail(pageHits))

\* pageHits.map(hit => ...): the first result with the hit's repo name and path
FileResult(hit, githubResults) ==
    LET repoInfo == ParseGitHubRepo(hit.repo)
        found == IF repoInfo = None THEN {}
                 ELSE {i \in 1..Len(githubResults) :
                          /\ githubResults[i].repo = repoInfo[1].repo
                          /\ githubResults[i].path = hit.path}
    IN  IF found = {}
        THEN [number |-> hit.number, repo |-> hit.repo, path |-> hit.path,
              content |-> None, error |-> Some("File not found in GitHub batch response.")]
        ELSE LET githubResult == githubResults[CHOOSE i \in found : \A j \in found : i <= j]
             IN  [number |-> hit.number, repo |-> hit.repo, path |-> hit.path,
                  content |-> githubResult.content, error |-> githubResult.error]

\* batchRetrieveFiles(params): the result, and the cache directory afterwards
\* (an expired record is unlinked by the lookup)
BatchRetrieveFiles(F, t, params, listing, up) ==
    LET page        == IF params.page = None THEN DEFAULT_PAGE ELSE params.page[1]
        pageSize    == IF params.pageSize = None THEN DEFAULT_PAGE_SIZE ELSE params.pageSize[1]
        cached      == GetQueryResults(F, t, params.query, listing)
        allNumberedHits == FlattenHits(cached.hits[1])
        hitsToProcess   == FilterHits(allNumberedHits, params.resultNumbers)
        totalResults    == Len(hitsToProcess)
        totalPages      == TotalPages(totalResults, pageSize)
        pageHits        == PageSlice(hitsToProcess, page, pageSize)
        fileRequests    == FileRequests(pageHits)
        githubResults   == FetchGitHubFiles(up, fileRequests)
        paged(success, fs, err) ==
            [success |-> success, files |-> fs, error |-> err,
             page |-> Some(page), pageSize |-> Some(pageSize),
             totalPages |-> Some(totalPages), totalResults |-> Some(totalResults)]
        result ==
            IF cached.hits = None
            THEN Failure("No cached results found for query", params.query)
            ELSE IF Len(hitsToProcess) = 0
            THEN Failure("No results found for the given query or result numbers.", "")
            ELSE IF Len(pageHits) = 0
            THEN paged(TRUE, <<>>, None)
            ELSE IF Len(fileRequests) = 0
            THEN paged(FALSE, <<>>,
                       Some([msg |-> "No valid files found for the specified result numbers on this page.",
                             arg |-> ""]))
            ELSE paged(TRUE, [i \in 1..Len(pageHits) |-> FileResult(pageHits[i], githubResults)],
                       None)
    IN  [result |-> result, files |-> cached.files]

(***************************************************************************)
(* Page fetches                                                            *)
(***************************************************************************)
\* grep-app-client.ts getCachedResults: entry.data of a live record, or null
GetCachedResults(F, t, cacheKey) ==
    LET got == GetCachedData(F, t, cacheKey)
    IN  [data |-> IF got.entry = None THEN None ELSE Some(got.entry[1].data),
         files |-> got.files]

\* grep-app-client.ts fetchGrepApp (the caching one): the page result or a
\* throw, and the cache directory afterwards
FetchGrepApp(F, t, page, args, up) ==
    LET cacheKey == GetCacheKey(page, args)
        cachedResults == GetCachedResults(F, t, cacheKey)
        data == Provider(args, page)
        results == [nextPage |-> IF data.count > PER_PAGE * page THEN Some(page + 1) ELSE None,
                    hits |-> AddHits(CreateHits, data.hits),
                    count |-> data.count]
    IN  IF cachedResults.data # None
        THEN [threw |-> FALSE, results |-> cachedResults.data, files |-> cachedResults.files]
        ELSE IF ~up
        THEN [threw |-> TRUE, results |-> None, files |-> cachedResults.files]
        ELSE [threw |-> FALSE, results |-> Some(results),
              files |-> CacheResults(cachedResults.files, t, cacheKey, results,
                                     ResultsBytes(results))]

\* search.ts fetchGrepApp under a fault of its cacheData call: the outcomes
\* (one per listing order of the cleanup)
FetchGrepAppToolWith(F, t, page, args, up, fault) ==
    LET cacheKey == GenerateCacheKey([query |-> args.query, page |-> Some(page)])
        cached == GetCachedData(F, t, cacheKey)
        data == Provider(args, page)
        results == [nextPage |-> IF page < data.pages THEN Some(page + 1) ELSE None,
                    hits |-> AddHits(CreateHits, data.hits),
                    count |-> data.count]
    IN  IF cached.entry # None
        THEN {[threw |-> FALSE, results |-> Some(cached.entry[1].data),
               files |-> cached.files, cause |-> "none"]}
        ELSE IF ~up
        THEN {[threw |-> TRUE, results |-> None, files |-> cached.files,
               cause |-> "axios.get"]}
        ELSE {[threw |-> after.raised,
               results |-> IF after.raised THEN None ELSE Some(results),
               files |-> after.files,
               cause |-> IF after.raised THEN "cacheData" ELSE "none"] :
                 after \in CacheDataWith(cached.files, t, cacheKey, results,
                                         ResultsBytes(results), Some(args.query), fault)}

\* search.ts fetchGrepApp on a file system that works
FetchGrepAppTool(F, t, page, args, up) ==
    FetchGrepAppToolWith(F, t, page, args, up, NoFault)

(***************************************************************************)
(* State machine                                                           *)
(***************************************************************************)
Idle == [op |-> "idle"]
NoSearch == [q \in Queries |-> None]

\* ---- the clock ----
Tick ==
    /\ \E t \in Instants : t > now /\ now' = t
    /\ ret' = [op |-> "tick"]
    /\ UNCHANGED <<files, call, done, keyIn, hitsIn, fetches>>

\* ---- searchCode of grep-app-client.ts, called by the searchCode tool ----
ClientArgs == {a \in ArgsSet : ~a.caseSensitive /\ a.query # "foo "}

Thrown(tool, args) == [op |-> tool, args |-> args, threw |-> TRUE, hits |-> CreateHits]

\* the same for the search tool, with the call whose rejection ended the search
ThrownBy(tool, args, cause) ==
    [op |-> tool, args |-> args, threw |-> TRUE, hits |-> CreateHits, cause |-> cause]

\* setTimeout(resolve, 500) before every fetch of the loop, in ms
PACING_DELAY == 500

\* What a search did in one turn: the page it fetched and the one before (0
\* before the first), how long it waited before the fetch, the count the
\* provider reported, the progress report it sent after the one `before`, and
\* the arguments and the result of its fetchGrepApp call.
Fetched(by, page, prev, waited, count, before, report, args, results) ==
    [op |-> "fetchGrepApp", by |-> by, page |-> page, prev |-> prev, waited |-> waited,
     count |-> count, before |-> before, progress |-> report.progress,
     total |-> report.total, args |-> args, nextPage |-> results.nextPage,
     hits |-> results.hits]

\* let page = 1; fetchGrepApp(page, args); totalResultCount; reportProgress
SearchCodeFirst ==
    /\ call = Idle
    /\ \E args \in ClientArgs, up \in BOOLEAN :
         LET out == FetchGrepApp(files, now, 1, args, up)
         IN  /\ files' = out.files
             /\ IF out.threw
                THEN call' = Idle /\ ret' = Thrown("searchCode", args)
                ELSE LET totalResultCount == Min(out.results[1].count, RESULT_CAP)
                     IN  /\ call' = [op |-> "searchCode", pc |-> "loop", args |-> args,
                                     page |-> 1,
                                     nextPage |-> out.results[1].nextPage,
                                     hits |-> out.results[1].hits,
                                     count |-> out.results[1].count,
                                     progress |-> 10]
                         /\ ret' = Fetched("searchCode", 1, 0, 0, out.results[1].count, None,
                                           [progress |-> 10, total |-> totalResultCount],
                                           args, out.results[1])
    /\ UNCHANGED <<now, done, keyIn, hitsIn, fetches>>

\* one turn of while (nextPage && nextPage <= 100): delay, fetch, merge, report
SearchCodePage ==
    /\ call # Idle /\ call.op = "searchCode"
    /\ call.nextPage # None /\ call.nextPage[1] <= MAX_PAGE
    /\ \E up \in BOOLEAN :
         LET out == FetchGrepApp(files, now, call.nextPage[1], call.args, up)
         IN  /\ files' = out.files
             /\ IF out.threw
                THEN call' = Idle /\ ret' = Thrown("searchCode", call.args)
                ELSE LET nextPage == out.results[1].nextPage
                         progress == (IF nextPage # None THEN nextPage[1] - 1 ELSE MAX_PAGE)
                                       * PER_PAGE
                     IN  /\ call' = [call EXCEPT !.page = call.nextPage[1],
                                                 !.nextPage = nextPage,
                                                 !.hits = MergeHits(call.hits, out.results[1].hits),
                                                 !.progress = progress]
                         /\ ret' = Fetched("searchCode", call.nextPage[1], call.page,
                                           PACING_DELAY, call.count, Some(call.progress),
                                           [progress |-> progress,
                                            total |-> Min(call.count, RESULT_CAP)],
                                           call.args, out.results[1])
    /\ UNCHANGED <<now, done, keyIn, hitsIn, fetches>>

\* the loop is over: report the total and return totalHits
SearchCodeReturn ==
    /\ call # Idle /\ call.op = "searchCode"
    /\ ~(call.nextPage # None /\ call.nextPage[1] <= MAX_PAGE)
    /\ done' = [done EXCEPT ![call.args.query] =
                    Some([at |-> now, tool |-> "searchCode"])]
    /\ ret' = [op |-> "searchCode", args |-> call.args, threw |-> FALSE, hits |-> call.hits,
               page |-> call.page, nextPage |-> call.nextPage, count |-> call.count,
               before |-> Some(call.progress),
               progress |-> Min(call.count, RESULT_CAP),
               total |-> Min(call.count, RESULT_CAP)]
    /\ call' = Idle
    /\ UNCHANGED <<files, now, keyIn, hitsIn, fetches>>


\* ---- searchTool.execute of search.ts ----
\* what one turn of while (true) does with the page fetched: merge, report,
\* break or go on.  prev is the page fetched in the turn before, before the
\* progress reported then.
ToolTurn(page, args, allHits, prev, before, out) ==
    IF out.threw
    THEN call' = Idle /\ ret' = ThrownBy("searchTool", args, out.cause)
    ELSE LET results == out.results[1]
             totalCount == results.count
             progress == Min(page * 10, totalCount)
         IN  /\ ret' = Fetched("searchTool", page, prev, 0, totalCount, before,
                               [progress |-> progress, total |-> totalCount],
                               args, results)
             /\ call' = [op |-> "searchTool",
                         pc |-> IF results.nextPage = None \/ page >= TOOL_MAX_PAGE
                                THEN "complete" ELSE "loop",
                         args |-> args,
                         page |-> IF results.nextPage = None \/ page >= TOOL_MAX_PAGE
                                  THEN page ELSE results.nextPage[1],
                         nextPage |-> results.nextPage,
                         hits |-> MergeHits(allHits, results.hits),
                         count |-> results.count,
                         fetched |-> page,
                         progress |-> progress]

ToolArgs == {a \in ArgsSet : ~a.caseSensitive}          \* the searches the tool is asked for

\* let page = 1; allHits = createHits(); first turn of the loop, for a search
\* out of argSet under a fault out of the kinds faultKinds
SearchToolFirstOf(argSet, faultKinds) ==
    /\ call = Idle
    /\ \E args \in argSet, up \in BOOLEAN :
         \E fault \in {f \in FaultsOn(DOMAIN files \ {GenerateCacheKey(
                                   [query |-> args.query, page |-> Some(1)])}) :
                             f.kind \in faultKinds} :
             \E out \in FetchGrepAppToolWith(files, now, 1, args, up, fault) :
                 files' = out.files /\ ToolTurn(1, args, CreateHits, 0, None, out)
    /\ UNCHANGED <<now, done, keyIn, hitsIn>>

\* a later turn of the loop: fetch call.page, merge, report, break or go on
SearchToolPageOf(faultKinds) ==
    /\ call # Idle /\ call.op = "searchTool" /\ call.pc = "loop"
    /\ \E up \in BOOLEAN :
         \E fault \in {f \in FaultsOn(DOMAIN files \ {GenerateCacheKey(
                                   [query |-> call.args.query, page |-> Some(call.page)])}) :
                             f.kind \in faultKinds} :
             \E out \in FetchGrepAppToolWith(files, now, call.page, call.args, up, fault) :
                 /\ files' = out.files
                 /\ ToolTurn(call.page, call.args, call.hits, call.fetched,
                             Some(call.progress), out)
    /\ UNCHANGED <<now, done, keyIn, hitsIn>>

\* after the loop: cache the complete results under the query's key and return
SearchToolCompleteOf(faultKinds) ==
    /\ call # Idle /\ call.op = "searchTool" /\ call.pc = "complete"
    /\ LET completeCacheKey == GenerateCacheKey([query |-> call.args.query, page |-> None])
           completeResults == [nextPage |-> None, hits |-> call.hits, count |-> call.count]
       IN  \E fault \in {f \in FaultsOn(DOMAIN files \ {completeCacheKey}) :
                               f.kind \in faultKinds} :
             \E after \in CacheDataWith(files, now, completeCacheKey, completeResults,
                                        ResultsBytes(completeResults),
                                        Some(call.args.query), fault) :
                 /\ files' = after.files
                 /\ IF after.raised
                    THEN /\ ret' = ThrownBy("searchTool", call.args, "cacheData")
                         /\ done' = done
                    ELSE /\ done' = [done EXCEPT ![call.args.query] =
                                        Some([at |-> now, tool |-> "searchTool"])]
                         /\ ret' = [op |-> "searchTool", args |-> call.args,
                                    threw |-> FALSE, hits |-> call.hits,
                                    page |-> call.fetched, nextPage |-> call.nextPage,
                                    count |-> call.count, fault |-> fault,
                                    logged |-> after.logged]
    /\ call' = Idle
    /\ UNCHANGED <<now, keyIn, hitsIn>>

\* the search tool on a file system that works
SearchToolFirst == SearchToolFirstOf(ToolArgs, {"none"}) /\ UNCHANGED fetches

SearchToolPage == SearchToolPageOf({"none"}) /\ UNCHANGED fetches

SearchToolComplete == SearchToolCompleteOf({"none"}) /\ UNCHANGED fetches

\* ---- batchRetrieveFiles ----
MaxRequested == 11      \* the longest list of result numbers requested
Missing == 99           \* a result number no aggregate of the model has

Upto(n) == [i \in 1..n |-> i]

RequestLists == {None, Some(<<2, 1>>), Some(<<1, Missing>>), Some(<<Missing>>),
                 Some(Upto(MaxRequested)), Some(Upto(MaxRequested) \o <<Missing>>)}

PageSizes == {5}
Pages == 1..4

\* every list without paging, and the longest list page by page
BatchParams ==
    {[query |-> q, resultNumbers |-> r, page |-> None, pageSize |-> None] :
        q \in Queries, r \in RequestLists}
    \cup {[query |-> q, resultNumbers |-> Some(Upto(MaxRequested)),
           page |-> Some(p), pageSize |-> Some(s)] :
            q \in Queries, p \in Pages, s \in PageSizes}

\* the retrieval test-client.ts makes after its search: results 1, 5 and 10
ClientBatchParams ==
    {[query |-> q, resultNumbers |-> Some(<<1, 5, 10>>), page |-> None, pageSize |-> None] :
        q \in Queries}

BatchRetrieveWith(paramSet) ==
    /\ \E params \in paramSet, listing \in Readdir(files), up \in BOOLEAN :
         LET out == BatchRetrieveFiles(files, now, params, listing, up)
         IN  /\ files' = out.files
             /\ ret' = [op |-> "batchRetrieveFiles", params |-> params, up |-> up,
                        result |-> out.result]
    /\ UNCHANGED <<now, call, done, keyIn, hitsIn, fetches>>

BatchRetrieve == BatchRetrieveWith(BatchParams)

ClientBatchRetrieve == BatchRetrieveWith(ClientBatchParams)

\* ---- the cache operations called on their own ----
Blobs == {"d1"}                                        \* opaque payloads
WrittenQueries == {"foo", "Foo"}                       \* queries cacheData is called with
GiB == 1024 * 1024                                     \* in KiB
\* record sizes: two or three records reach the cap, 2 GiB + 3 GiB exactly
BlobBytes == {2 * GiB, 3 * GiB}
CacheKeys == {GenerateCacheKey([query |-> q, page |-> None]) : q \in Queries}

Deleted(before, after) ==
    {[key |-> k, mtime |-> before[k].mtime, bytes |-> before[k].bytes] :
        k \in DOMAIN before \ DOMAIN after}

CacheDataCall ==
    /\ \E cacheKey \in CacheKeys, data \in Blobs, bytes \in BlobBytes, query \in WrittenQueries :
         /\ files' \in CacheData(files, now, cacheKey, data, bytes, Some(query))
         /\ ret' = [op |-> "cacheData", key |-> cacheKey, query |-> query, data |-> data,
                    total |-> TotalSize(WriteFile(files, now, cacheKey, data, bytes, Some(query)),
                                        CHOOSE l \in Readdir(WriteFile(files, now, cacheKey, data, bytes, Some(query))) : TRUE),
                    deleted |-> Deleted(WriteFile(files, now, cacheKey, data, bytes, Some(query)), files')]
    /\ UNCHANGED <<now, call, done, keyIn, hitsIn, fetches>>

GetCachedDataCall ==
    /\ \E cacheKey \in CacheKeys :
         LET got == GetCachedData(files, now, cacheKey)
         IN  /\ files' = got.files
             /\ ret' = [op |-> "getCachedData", key |-> cacheKey, entry |-> got.entry,
                        had |-> IF cacheKey \in DOMAIN files
                                THEN Some(files[cacheKey].entry) ELSE None]
    /\ UNCHANGED <<now, call, done, keyIn, hitsIn, fetches>>

FindCacheFilesCall ==
    /\ \E query \in Queries, listing \in Readdir(files) :
         ret' = [op |-> "findCacheFiles", query |-> query,
                 found |-> FindCacheFiles(files, query, listing)]
    /\ UNCHANGED <<files, now, call, done, keyIn, hitsIn, fetches>>

CleanupCacheCall ==
    /\ \E listing \in Readdir(files) :
         /\ files' = CleanupCache(files, listing)
         /\ ret' = [op |-> "cleanupCache", total |-> TotalSize(files, listing),
                    deleted |-> Deleted(files, files')]
    /\ UNCHANGED <<now, call, done, keyIn, hitsIn, fetches>>

\* ---- key derivation, site by site ----
Sites == {"search.fetchGrepApp", "search.execute", "grep-app-client.fetchGrepApp"}
KeyPages == 1..3

DeriveKey(site, page, args) ==
    CASE site = "search.fetchGrepApp" ->
             GenerateCacheKey([query |-> args.query, page |-> Some(page)])
      [] site = "search.execute" ->
             GenerateCacheKey([query |-> args.query, page |-> None])
      [] OTHER -> GetCacheKey(page, args)

KeyInputs == [site : Sites, page : KeyPages, args : ArgsSet]

DeriveKeys ==
    /\ ret = [op |-> "init"]
    /\ ret' = [op |-> "deriveKeys",
               a |-> DeriveKey(keyIn[1].site, keyIn[1].page, keyIn[1].args),
               b |-> DeriveKey(keyIn[2].site, keyIn[2].page, keyIn[2].args)]
    /\ UNCHANGED <<files, now, call, done, keyIn, hitsIn, fetches>>

(***************************************************************************)
(* Specifications                                                          *)
(***************************************************************************)
Init ==
    /\ files = EmptyDir
    /\ now = 0
    /\ ret = [op |-> "init"]
    /\ call = Idle
    /\ done = NoSearch
    /\ keyIn = None
    /\ hitsIn = None
    /\ fetches = 0

\* the search tool of search.ts, batch retrieval and the clock
Next == SearchToolFirst \/ SearchToolPage \/ SearchToolComplete \/ BatchRetrieve \/ Tick
Spec == Init /\ [][Next]_vars

\* searchCode of grep-app-client.ts, batch retrieval and the clock
NextClient ==
    SearchCodeFirst \/ SearchCodePage \/ SearchCodeReturn \/ CleanupCacheCall
        \/ ClientBatchRetrieve \/ Tick
SpecClient == Init /\ [][NextClient]_vars

\* the cache operations alone
NextCache ==
    CacheDataCall \/ GetCachedDataCall \/ FindCacheFilesCall
        \/ CleanupCacheCall \/ Tick
SpecCache == Init /\ [][NextCache]_vars

\* key derivation on every pair of inputs
InitKeys ==
    /\ files = EmptyDir /\ now = 0 /\ ret = [op |-> "init"] /\ call = Idle
    /\ done = NoSearch
    /\ keyIn \in KeyInputs \X KeyInputs
    /\ hitsIn = None
    /\ fetches = 0
SpecKeys == InitKeys /\ [][DeriveKeys]_vars

(***************************************************************************)
(* Properties                                                              *)
(***************************************************************************)
NoCachedResults(result) ==
    /\ ~result.success
    /\ result.error # None
    /\ result.error[1].msg = "No cached results found for query"

\* C1: a batch retrieval for q made within the TTL of a searchCode call for q
\* that returned results does not fail with 'No cached results found'.
C1_BatchAfterSearchCodeFindsAggregate ==
    (/\ ret.op = "batchRetrieveFiles"
     /\ done[ret.params.query] # None
     /\ done[ret.params.query][1].tool = "searchCode"
     /\ now - done[ret.params.query][1].at <= CACHE_TTL)
        => ~NoCachedResults(ret.result)

\* C2: the keys derived for two inputs (by any site, for any page and flags)
\* are equal exactly when the two queries are equal.
C2_KeyDependsOnQueryAlone ==
    ret.op = "deriveKeys"
        => ((ret.a = ret.b) <=> (keyIn[1].args.query = keyIn[2].args.query))

FoundBy(query) == {Range(FindCacheFiles(files, query, listing)) : listing \in Readdir(files)}

\* C3 as stated: after cacheData(key, data, q), findCacheFiles(q) includes the
\* record of key and findCacheFiles(q2), q2 # q, does not.
C3_WrittenRecordFoundByItsQuery ==
    ret.op = "cacheData"
        => /\ \A found \in FoundBy(ret.query) : ret.key \in found
           /\ \A q2 \in Queries \ {ret.query} : \A found \in FoundBy(q2) : ret.key \notin found

\* C3 amended: after cacheData(key, data, q) no other query finds the record
\* of key; q finds it unless the cleanup pass of this very call evicted it,
\* which only happens when the total size after the write is above the cap.
C3_WrittenRecordFoundUnlessEvicted ==
    ret.op = "cacheData"
        => /\ \A q2 \in Queries \ {ret.query} : \A found \in FoundBy(q2) : ret.key \notin found
           /\ ret.key \in DOMAIN files => \A found \in FoundBy(ret.query) : ret.key \in found
           /\ ret.key \notin DOMAIN files
                => ret.total > MAX_CACHE_SIZE /\ \E d \in ret.deleted : d.key = ret.key
           /\ ret.total <= MAX_CACHE_SIZE => ret.key \in DOMAIN files

\* a write that pushed the total over the cap and survived its own cleanup
C3_Witness ==
    /\ ret.op = "cacheData"
    /\ ret.total > MAX_CACHE_SIZE
    /\ ret.key \in DOMAIN files
    /\ \A found \in FoundBy(ret.query) : ret.key \in found

\* C4: getCachedData on a record older than CACHE_TTL returns null and the
\* record is gone afterwards; on a record not older than CACHE_TTL it returns
\* the entry and the record stays.
C4_ExpiredRecordRemovedLiveRecordReturned ==
    (ret.op = "getCachedData" /\ ret.had # None)
        => IF now - ret.had[1].timestamp > CACHE_TTL
           THEN ret.entry = None /\ ret.key \notin DOMAIN files
           ELSE /\ ret.entry = ret.had
                /\ ret.key \in DOMAIN files
                /\ files[ret.key].entry = ret.had[1]

\* a lookup of a record one millisecond past the TTL
C4_Witness ==
    /\ ret.op = "getCachedData" /\ ret.had # None
    /\ now - ret.had[1].timestamp = CACHE_TTL + 1
    /\ ret.entry = None

\* a lookup of a record exactly CACHE_TTL old, which is still live
C4_WitnessBoundary ==
    /\ ret.op = "getCachedData" /\ ret.had # None
    /\ now - ret.had[1].timestamp = CACHE_TTL
    /\ ret.entry # None

\* the calls that made a cleanupCache pass: cleanupCache itself, and cacheData,
\* which awaits one after its write (total and deleted are those of the pass)
CleanupPass == ret.op \in {"cleanupCache", "cacheData"}

RECURSIVE SumBytes(_)
SumBytes(S) ==
    IF S = {} THEN 0
    ELSE LET d == CHOOSE x \in S : TRUE IN d.bytes + SumBytes(S \ {d})

\* C5: a cleanupCache pass running alone deletes nothing when the total is at
\* or under the cap; otherwise it deletes oldest first and stops as soon as
\* the total is at or under the cap: every deleted record is at least as old
\* as every kept one, and without the last record deleted (a newest one) the
\* total would still be above the cap.
C5_CleanupDeletesOldestUntilUnderCap ==
    CleanupPass
        => /\ ret.total <= MAX_CACHE_SIZE => ret.deleted = {}
           /\ ret.total > MAX_CACHE_SIZE
                => /\ ret.deleted # {}
                   /\ ret.total - SumBytes(ret.deleted) <= MAX_CACHE_SIZE
                   /\ \A d \in ret.deleted : \A k \in DOMAIN files : d.mtime <= files[k].mtime
                   /\ \E d \in ret.deleted :
                        /\ \A e \in ret.deleted : e.mtime <= d.mtime
                        /\ ret.total - SumBytes(ret.deleted) + d.bytes > MAX_CACHE_SIZE

\* a pass that deleted an older record and kept a newer one
C5_Witness ==
    /\ CleanupPass
    /\ ret.deleted # {}
    /\ \E d \in ret.deleted : \E k \in DOMAIN files : d.mtime < files[k].mtime

\* a pass over a directory exactly at the cap
C5_WitnessAtCap ==
    ret.op = "cleanupCache" /\ ret.total = MAX_CACHE_SIZE /\ ret.deleted = {}

\* ---- batch retrieval, read off the last call and the directory it left ----
IsBatch == ret.op = "batchRetrieveFiles"

\* the records a lookup by query can resolve: written for q and not expired
LiveRecords(q) ==
    {k \in DOMAIN files : /\ files[k].entry.query = Some(q)
                          /\ now - files[k].entry.timestamp <= CACHE_TTL}

\* the flattened sequence of the record cached for q
CachedSequence(q) ==
    FlattenHits(files[CHOOSE k \in LiveRecords(q) : TRUE].entry.data.hits)

Requested == ret.params.resultNumbers
Unpaged == ret.params.page = None /\ ret.params.pageSize = None
Numbers(fs) == [i \in 1..Len(fs) |-> fs[i].number]

\* the numbers of R that number a result of a sequence of n, in a set
Existing(R, n) == {m \in Range(R) : m \in 1..n}

\* C6: a batch retrieval for a query with no live cache entry returns
\* success=false, no files and an error message.
C6_NoLiveEntryIsStructuredFailure ==
    (IsBatch /\ LiveRecords(ret.params.query) = {})
        => /\ ~ret.result.success
           /\ ret.result.files = <<>>
           /\ ret.result.error # None

\* a retrieval for a query that was searched, after its record expired
C6_Witness ==
    /\ IsBatch
    /\ done[ret.params.query] # None
    /\ LiveRecords(ret.params.query) = {}
    /\ NoCachedResults(ret.result)

\* C7: without page and pageSize, the response has exactly one entry for each
\* requested number that numbers a result of the cached sequence.
C7_UnpagedReturnsEveryRequestedResult ==
    (IsBatch /\ Unpaged /\ Requested # None /\ LiveRecords(ret.params.query) # {})
        => LET wanted == Existing(Requested[1], Len(CachedSequence(ret.params.query)))
           IN  /\ Len(ret.result.files) = Cardinality(wanted)
               /\ Range(Numbers(ret.result.files)) = wanted

\* the position of the first occurrence of n in the list R
FirstAt(R, n) == CHOOSE i \in 1..Len(R) : R[i] = n /\ \A j \in 1..(i - 1) : R[j] # n

\* C8: the files of the response follow the order in which the caller listed
\* the result numbers.
C8_FilesInCallerOrder ==
    (IsBatch /\ Requested # None)
        => \A i, j \in 1..Len(ret.result.files) :
              i < j => FirstAt(Requested[1], ret.result.files[i].number)
                         < FirstAt(Requested[1], ret.result.files[j].number)

\* C9: when some requested numbers match no result and at least one does,
\* the response has success=true and an entry for every matched number and
\* for no other.
C9_PartialMatchReturnsMatched ==
    (/\ IsBatch /\ Unpaged /\ Requested # None /\ LiveRecords(ret.params.query) # {}
     /\ Existing(Requested[1], Len(CachedSequence(ret.params.query)))
            \notin {{}, Range(Requested[1])})
        => /\ ret.result.success
           /\ Range(Numbers(ret.result.files))
                = Existing(Requested[1], Len(CachedSequence(ret.params.query)))

\* the page and page size a call asks for, the defaults filled in
AskedPage == IF ret.params.page = None THEN DEFAULT_PAGE ELSE ret.params.page[1]
AskedPageSize == IF ret.params.pageSize = None THEN DEFAULT_PAGE_SIZE ELSE ret.params.pageSize[1]

\* the filtered flattened sequence of the call: the results of the cached
\* sequence that are requested (all of them when no numbers are given)
FilteredSequence ==
    LET all == CachedSequence(ret.params.query)
    IN  IF Requested = None THEN all
        ELSE SelectSeq(all, LAMBDA h : h.number \in Range(Requested[1]))

\* elements start+1 .. start+size of a sequence, as far as it goes
Slice(seq, start, size) ==
    [i \in 1..(IF Len(seq) <= start THEN 0
               ELSE IF Len(seq) < start + size THEN Len(seq) - start ELSE size)
        |-> seq[start + i]]

AskedSlice == Slice(FilteredSequence, (AskedPage - 1) * AskedPageSize, AskedPageSize)

\* a call that got past the lookup and the filter
Paginated == IsBatch /\ LiveRecords(ret.params.query) # {} /\ Len(FilteredSequence) > 0

Ceil(n, d) == CHOOSE c \in 0..n : (c - 1) * d < n /\ n <= c * d

PageCountRight ==
    /\ ret.result.totalResults = Some(Len(FilteredSequence))
    /\ ret.result.totalPages = Some(Ceil(Len(FilteredSequence), AskedPageSize))

NoneParses(seq) == \A i \in 1..Len(seq) : ParseGitHubRepo(seq[i].repo) = None

C10_WitnessBeyond ==
    /\ Paginated
    /\ AskedPage > Ceil(Len(FilteredSequence), AskedPageSize)
    /\ ret.result.success /\ ret.result.files = <<>>

(***************************************************************************)
(* The hit aggregate on its own: addHit, mergeHits and flattenHits applied *)
(* to two provider hit lists.                                              *)
(***************************************************************************)
MaxHits == 2            \* the longest provider hit list

\* provider hits: two repositories, two paths of one of them, two lines of
\* one path, one line with two texts, and a snippet without a <mark>
HitData ==
    {[repo |-> R1, path |-> <<"a">>, snippet |-> <<Row(1, "x", TRUE)>>],
     [repo |-> R1, path |-> <<"a">>, snippet |-> <<Row(1, "y", TRUE)>>],
     [repo |-> R1, path |-> <<"a">>, snippet |-> <<Row(2, "x", TRUE)>>],
     [repo |-> R1, path |-> <<"b">>, snippet |-> <<Row(1, "x", TRUE)>>],
     [repo |-> R2, path |-> <<"a">>, snippet |-> <<Row(1, "x", TRUE)>>],
     [repo |-> R2, path |-> <<"b">>, snippet |-> <<Row(1, "x", FALSE)>>]}

HitLists == UNION {[1..n -> HitData] : n \in 0..MaxHits}

\* the aggregate fetchGrepApp builds from a provider hit list
HitsOf(hitData) == AddHits(CreateHits, hitData)

InitHits ==
    /\ files = EmptyDir /\ now = 0 /\ ret = [op |-> "init"] /\ call = Idle
    /\ done = NoSearch /\ keyIn = None /\ fetches = 0
    /\ hitsIn \in HitLists \X HitLists

\* flattenHits of the two aggregates and of their merges in both orders
FlattenHitsCall ==
    /\ ret' = [op |-> "flattenHits",
               a  |-> FlattenHits(HitsOf(hitsIn[1])),
               b  |-> FlattenHits(HitsOf(hitsIn[2])),
               ab |-> FlattenHits(MergeHits(HitsOf(hitsIn[1]), HitsOf(hitsIn[2]))),
               ba |-> FlattenHits(MergeHits(HitsOf(hitsIn[2]), HitsOf(hitsIn[1])))]
    /\ UNCHANGED <<files, now, call, done, keyIn, hitsIn, fetches>>

\* the (repository, path) pairs and the (repository, path, line, text) tuples
\* of an aggregate
Files(hits) ==
    UNION {{<<hits[i].repo, hits[i].paths[j].path>> : j \in 1..Len(hits[i].paths)} :
           i \in 1..Len(hits)}

Triples(hits) ==
    UNION {UNION {{<<hits[i].repo, hits[i].paths[j].path, n, hits[i].paths[j].lines[n]>> :
                      n \in DOMAIN hits[i].paths[j].lines} :
                  j \in 1..Len(hits[i].paths)} :
           i \in 1..Len(hits)}

SameContent(h1, h2) == Files(h1) = Files(h2) /\ Triples(h1) = Triples(h2)

\* C11: two aggregates with the same repository, path and line content
\* flatten to the same numbered sequence, whatever order their hits were
\* added in or their pages merged in.
C11_FlattenDependsOnContentAlone ==
    ret.op = "flattenHits"
        => /\ SameContent(HitsOf(hitsIn[1]), HitsOf(hitsIn[2])) => ret.a = ret.b
           /\ SameContent(MergeHits(HitsOf(hitsIn[1]), HitsOf(hitsIn[2])),
                          MergeHits(HitsOf(hitsIn[2]), HitsOf(hitsIn[1])))
                => ret.ab = ret.ba

\* ---- formatResultsAsNumberedList (formatters.ts) ----
\* the line numbers of a line map in ascending order: matches.sort(...)
RECURSIVE SortedLines(_)
SortedLines(S) ==
    IF S = {} THEN <<>>
    ELSE LET m == CHOOSE x \in S : \A y \in S : x <= y
         IN  <<m>> \o SortedLines(S \ {m})

GroupIndex(fileGroups, fullPath) ==
    IF \E i \in 1..Len(fileGroups) : fileGroups[i].fullPath = fullPath
    THEN CHOOSE i \in 1..Len(fileGroups) : fileGroups[i].fullPath = fullPath
    ELSE 0

\* fileGroups[`${repo}/${path}`].push(...) for every path of one repository
RECURSIVE GroupPaths(_, _, _)
GroupPaths(fileGroups, repo, paths) ==
    IF paths = <<>> THEN fileGroups
    ELSE LET fullPath == repo \o Head(paths).path
             g1 == IF GroupIndex(fileGroups, fullPath) = 0
                   THEN Append(fileGroups, [fullPath |-> fullPath, matches |-> <<>>])
                   ELSE fileGroups
             g  == GroupIndex(g1, fullPath)
             lines == Head(paths).lines
             pushed == [i \in 1..Cardinality(DOMAIN lines) |->
                           [lineNum |-> SortedLines(DOMAIN lines)[i],
                            line |-> lines[SortedLines(DOMAIN lines)[i]]]]
         IN  GroupPaths([g1 EXCEPT ![g].matches = @ \o pushed], repo, Tail(paths))

RECURSIVE FileGroups(_, _)
FileGroups(fileGroups, results) ==
    IF results = <<>> THEN fileGroups
    ELSE FileGroups(GroupPaths(fileGroups, Head(results).repo, Head(results).paths),
                    Tail(results))

\* the older formatter: one number per matched line
FormatResultsPerLine(results) ==
    LET fileGroups == FileGroups(<<>>, results)
        flat == [i \in 1..Len(fileGroups) |-> Len(fileGroups[i].matches)]
        before(i) == SumSeq(SubSeq(flat, 1, i - 1))
    IN  [threw |-> \E i \in 1..Len(fileGroups) : fileGroups[i].matches = <<>>,
         output |-> [i \in 1..Len(fileGroups) |->
                        [number |-> before(i) + 1, fullPath |-> fileGroups[i].fullPath]]]

\* formatResultsAsNumberedList: the header printed for every file group, the
\* counter before it; matches[0] of a group without lines is undefined and
\* reading its lineNum throws
FormatResultsAsNumberedList(results) ==
    LET fileGroups == FileGroups(<<>>, results)
    IN  [threw |-> \E i \in 1..Len(fileGroups) : fileGroups[i].matches = <<>>,
         output |-> [i \in 1..Len(fileGroups) |->
                        [number |-> i, fullPath |-> fileGroups[i].fullPath]]]

\* the numbered output of the aggregate of the two lists merged
FormatCall ==
    /\ ret' = [op |-> "formatResultsAsNumberedList",
               hits |-> MergeHits(HitsOf(hitsIn[1]), HitsOf(hitsIn[2])),
               out  |-> FormatResultsAsNumberedList(
                            MergeHits(HitsOf(hitsIn[1]), HitsOf(hitsIn[2])))]
    /\ UNCHANGED <<files, now, call, done, keyIn, hitsIn, fetches>>

\* mergeHits(target, source), and mergeHits of target with a copy of itself
MergeHitsCall ==
    /\ ret' = [op |-> "mergeHits",
               target |-> HitsOf(hitsIn[1]),
               source |-> HitsOf(hitsIn[2]),
               merged |-> MergeHits(HitsOf(hitsIn[1]), HitsOf(hitsIn[2])),
               self   |-> MergeHits(HitsOf(hitsIn[1]), HitsOf(hitsIn[1]))]
    /\ UNCHANGED <<files, now, call, done, keyIn, hitsIn, fetches>>

NextHits == FlattenHitsCall \/ FormatCall \/ MergeHitsCall
SpecHits == InitHits /\ [][NextHits]_vars

\* C12: the number printed before a file in the numbered output is the number
\* flattenHits gives the same (repository, path) of the same aggregate.
C12_PrintedNumberIsFlattenNumber ==
    (ret.op = "formatResultsAsNumberedList" /\ ~ret.out.threw)
        => LET flat == FlattenHits(ret.hits)
           IN  /\ Len(ret.out.output) = Len(flat)
               /\ \A k \in 1..Len(flat) :
                    \E i \in 1..Len(ret.out.output) :
                        /\ ret.out.output[i].number = flat[k].number
                        /\ ret.out.output[i].fullPath = flat[k].repo \o flat[k].path
               /\ \A i, j \in 1..Len(ret.out.output) :
                    ret.out.output[i].number = ret.out.output[j].number => i = j

\* a numbered output of three files, one of them with two matched lines
C12_Witness ==
    /\ ret.op = "formatResultsAsNumberedList" /\ ~ret.out.threw
    /\ Len(ret.out.output) = 3
    /\ \E i \in 1..Len(ret.hits) : \E j \in 1..Len(ret.hits[i].paths) :
          Cardinality(DOMAIN ret.hits[i].paths[j].lines) = 2

\* C15: mergeHits of an aggregate with an identical copy of itself leaves
\* the target's repository, path and line content unchanged.
C15_MergeWithCopyOfItselfChangesNothing ==
    ret.op = "mergeHits" => SameContent(ret.self, ret.target) /\ ret.self = ret.target

\* a self-merge of an aggregate of two files with lines
C15_Witness ==
    /\ ret.op = "mergeHits"
    /\ Cardinality(Files(ret.target)) = 2
    /\ Cardinality(Triples(ret.target)) = 2
    /\ ret.self = ret.target

\* the (repository, path, line) keys of a set of triples
Keys(triples) == {<<t[1], t[2], t[3]>> : t \in triples}

\* C16: after mergeHits(target, source) the target holds exactly the union of
\* the (repository, path, line) triples of the old target and of source; one
\* present in both carries source's content, one present only in the old
\* target keeps its content.
C16_MergeIsUnionSourceWins ==
    ret.op = "mergeHits"
        => /\ Keys(Triples(ret.merged))
                = Keys(Triples(ret.target)) \cup Keys(Triples(ret.source))
           /\ Triples(ret.merged)
                = Triples(ret.source)
                  \cup {t \in Triples(ret.target) :
                           <<t[1], t[2], t[3]>> \notin Keys(Triples(ret.source))}
           /\ Files(ret.merged) = Files(ret.target) \cup Files(ret.source)

\* a merge where source overwrites one line of a path and the old target
\* keeps another line of the same path
C16_Witness ==
    /\ ret.op = "mergeHits"
    /\ \E t \in Triples(ret.target) :
          /\ <<t[1], t[2], t[3]>> \in Keys(Triples(ret.source))
          /\ t \notin Triples(ret.source)
          /\ t \notin Triples(ret.merged)
    /\ \E t \in Triples(ret.target) :
          /\ <<t[1], t[2], t[3]>> \notin Keys(Triples(ret.source))
          /\ \E u \in Triples(ret.source) : u[1] = t[1] /\ u[2] = t[2]
          /\ t \in Triples(ret.merged)

(***************************************************************************)
(* Paging, pacing and progress of one search                               *)
(***************************************************************************)
\* the last call was a page fetch of a search
IsFetch == ret.op = "fetchGrepApp"

\* the last call was a search returning its aggregate
Returned == ret.op \in {"searchCode", "searchTool"} /\ ~ret.threw

\* C13: a search requests page 1 and then pages 2, 3, ... in increasing
\* order, each exactly once, never a page above 100, and returns only when the
\* last page fetched reported no next page or was page 100.
C13_PagesInOrderEachOnce ==
    /\ IsFetch => ret.page = ret.prev + 1 /\ ret.page <= MAX_PAGE
    /\ Returned => ret.nextPage = None \/ ret.page = MAX_PAGE

\* C19: no page fetch after the first starts before a pacing delay has
\* elapsed since the previous fetch resolved.
C19_DelayBetweenConsecutiveFetches ==
    IsFetch /\ ret.prev > 0 => ret.waited > 0

\* the last call sent a progress report
Reported == IsFetch \/ (ret.op = "searchCode" /\ ~ret.threw)

\* C20: within one search the progress values reported never decrease, and
\* every report carries the total min(totalCount, 1000).
C20_ProgressNeverDecreasesTotalIsCapped ==
    Reported => /\ ret.before # None => ret.before[1] <= ret.progress
                /\ ret.total = Min(ret.count, RESULT_CAP)

(***************************************************************************)
(* The search tool with its page fetches counted                           *)
(***************************************************************************)
\* fetches is the number of fetchGrepApp calls of the search in flight (or of
\* the last one); a search that has made more than MAX_PAGE is not followed
\* further
CountedSearchToolFirst == SearchToolFirstOf(ToolArgs, {"none"}) /\ fetches' = 1

CountedSearchToolPage ==
    /\ fetches <= MAX_PAGE
    /\ SearchToolPageOf({"none"})
    /\ fetches' = fetches + 1

CountedSearchToolComplete == SearchToolCompleteOf({"none"}) /\ UNCHANGED fetches

NextPager ==
    CountedSearchToolFirst \/ CountedSearchToolPage \/ CountedSearchToolComplete \/ Tick
SpecPager == Init /\ [][NextPager]_vars

\* C14: a search invocation returns its aggregate or fails after at most 100
\* page fetches: no search, in flight or over, has made more than 100.
C14_AtMostHundredPageFetches == fetches <= MAX_PAGE

(***************************************************************************)
(* The cache and the search tool on a file system that fails               *)
(***************************************************************************)
\* the faults a search meets in its cacheData calls
FaultKinds == {"none", "writeFile", "readdir"}

\* the page results a large record holds (their hits do not matter here)
LargeResults == {[nextPage |-> None, hits |-> CreateHits, count |-> 0]}

\* one cacheData call under a fault; tied records whether another record of
\* the directory carries the mtime of the one written
CacheDataUnderFault ==
    /\ \E cacheKey \in CacheKeys, data \in LargeResults, bytes \in {3 * GiB},
          query \in {"foo"} :
         \E fault \in FaultsOn(DOMAIN files \ {cacheKey}) :
           \E after \in CacheDataWith(files, now, cacheKey, data, bytes, Some(query), fault) :
             /\ files' = after.files
             /\ ret' = [op |-> "cacheData", key |-> cacheKey, fault |-> fault,
                        raised |-> after.raised, logged |-> after.logged,
                        cleanupFailed |-> after.cleanupFailed,
                        record |-> Record(data, now, bytes, Some(query)),
                        tied |-> \E k \in DOMAIN files \ {cacheKey} :
                                    files[k].mtime = now]
    /\ UNCHANGED <<now, call, done, keyIn, hitsIn, fetches>>

FaultyArgs == {a \in ToolArgs : a.query = "Foo"}

SearchToolFirstUnderFault == SearchToolFirstOf(FaultyArgs, FaultKinds) /\ UNCHANGED fetches

SearchToolPageUnderFault == SearchToolPageOf(FaultKinds) /\ UNCHANGED fetches

SearchToolCompleteUnderFault == SearchToolCompleteOf(FaultKinds) /\ UNCHANGED fetches

NextFaults ==
    CacheDataUnderFault \/ SearchToolFirstUnderFault \/ SearchToolPageUnderFault
        \/ SearchToolCompleteUnderFault \/ Tick
SpecFaults == Init /\ [][NextFaults]_vars

\* the last call was a cacheData call whose write went through and whose
\* cleanup pass failed
CleanupFailed == ret.op = "cacheData" /\ ret.cleanupFailed

C17_WitnessSearch ==
    /\ ret.op = "searchTool" /\ ~ret.threw
    /\ ret.fault.kind = "writeFile" /\ ret.logged
    /\ ret.hits # CreateHits
    /\ ret.args.query \notin {files[k].entry.query[1] : k \in DOMAIN files}

\* the last call was a cacheData call during whose cleanup pass another call
\* removed a listed record
Vanished == ret.op = "cacheData" /\ ret.fault.kind \in {"statGone", "unlinkGone"}

\* C18: when a listed record is removed by another call before the pass stats
\* or unlinks it, the pass reports no error and goes on until the total size
\* is at or under the cap.
C18_VanishedRecordIsTolerated ==
    Vanished => /\ ~ret.logged
                /\ SumBytes({[key |-> k, bytes |-> files[k].bytes] : k \in DOMAIN files})
                      <= MAX_CACHE_SIZE

(***************************************************************************)
(* Records and the queries they are found by                               *)
(***************************************************************************)
\* the keys the searches for q write their records under
KeysOf(q) ==
    {GenerateCacheKey([query |-> q, page |-> None])}
    \cup {GetCacheKey(page, args) : page \in 1..TOOL_MAX_PAGE,
                                   args \in {a \in ArgsSet : a.query = q}}

\* C21: every record that a search path persists carries a query field equal
\* to that search's query string.
C21_EveryRecordCarriesItsQuery ==
    \A k \in DOMAIN files :
        \E q \in Queries : k \in KeysOf(q) /\ files[k].entry.query = Some(q)

\* ---- getQueryResults over records written under any key ----
\* the aggregates the records hold
Aggregates ==
    {AddHits(CreateHits, <<Hit(R1, "a", 1)>>), AddHits(CreateHits, <<Hit(R2, "b", 1)>>)}

\* cacheData(cacheKey, results, query) with a key and a query of the caller's
CacheAggregateCall ==
    /\ \E cacheKey \in CacheKeys, hits \in Aggregates, query \in WrittenQueries :
         LET data == [nextPage |-> None, hits |-> hits, count |-> 1]
         IN  /\ files' \in CacheData(files, now, cacheKey, data, ResultsBytes(data),
                                     Some(query))
             /\ ret' = [op |-> "cacheData", key |-> cacheKey, query |-> query]
    /\ UNCHANGED <<now, call, done, keyIn, hitsIn, fetches>>

\* the records whose query field is query, and the most recently written
Matching(F, query) == {k \in DOMAIN F : F[k].entry.query = Some(query)}
Newest(F, query) ==
    {k \in Matching(F, query) : \A j \in Matching(F, query) : F[j].mtime <= F[k].mtime}

\* getQueryResults(query) twice over the same records, the directory listed
\* in an order of the file system's each time
GetQueryResultsCall ==
    /\ \E query \in WrittenQueries, first \in Readdir(files), second \in Readdir(files) :
         LET out == GetQueryResults(files, now, query, first)
             again == GetQueryResults(files, now, query, second)
         IN  /\ files' = out.files
             /\ ret' = [op |-> "getQueryResults", query |-> query,
                        hits |-> out.hits, again |-> again.hits,
                        matching |-> Cardinality(Matching(files, query)),
                        newest |-> {GetCachedData(files, now, k).entry :
                                       k \in Newest(files, query)}]
    /\ UNCHANGED <<now, call, done, keyIn, hitsIn, fetches>>

NextLocator == CacheAggregateCall \/ GetQueryResultsCall \/ Tick
SpecLocator == Init /\ [][NextLocator]_vars

PageHits(args, page) == AddHits(CreateHits, Provider(args, page).hits)

\* the merge of the provider's pages 1..n
RECURSIVE MergedPages(_, _)
MergedPages(args, n) ==
    IF n = 0 THEN CreateHits
    ELSE MergeHits(MergedPages(args, n - 1), PageHits(args, n))

\* the aggregate of a search that ran through every page the provider has
CompleteAggregate(args) == MergedPages(args, Provider(args, 1).pages)

\* C23: in every reachable state the record discoverable for a query q holds
\* the complete merged aggregate of a search for q, never a single page's
\* partial aggregate.
C23_DiscoverableRecordIsCompleteAggregate ==
    \A k \in DOMAIN files :
        \A q \in Queries :
            files[k].entry.query = Some(q)
                => files[k].entry.data.hits
                       = CompleteAggregate([query |-> q, caseSensitive |-> FALSE])

\* the result the provider gives for one page, as search.ts and as
\* grep-app-client.ts derive the next page from it
ProviderNextPage(by, args, page) ==
    IF by = "searchTool"
    THEN (IF page < Provider(args, page).pages THEN Some(page + 1) ELSE None)
    ELSE (IF Provider(args, page).count > PER_PAGE * page THEN Some(page + 1) ELSE None)

\* C24: fetchGrepApp(p, args) returns the result the provider gave for page
\* p, also when it is answered from the cache: never hits or a nextPage
\* fetched or stored for a different page.
C24_FetchReturnsItsOwnPage ==
    IsFetch => /\ ret.hits = PageHits(ret.args, ret.page)
               /\ ret.nextPage = ProviderNextPage(ret.by, ret.args, ret.page)

(***************************************************************************)
(* Searches that differ in their flags only                                *)
(***************************************************************************)
\* one query, case-insensitive and case-sensitive; the provider has one page
\* for either, so the loop of execute is left after its first turn
FlagArgs == {a \in ArgsSet : a.query = "foo"}

FlagSearchToolFirst == SearchToolFirstOf(FlagArgs, {"none"}) /\ UNCHANGED fetches

NextFlags == FlagSearchToolFirst \/ SearchToolComplete \/ BatchRetrieve \/ Tick
SpecFlags == Init /\ [][NextFlags]_vars

\* C28: what a search returns depends only on the provider's responses for
\* its own query and flags: an earlier search with the same query string but
\* different flags does not change the aggregate a later search returns.
C28_AggregateIsOfOwnFlags ==
    Returned => ret.hits = CompleteAggregate(ret.args)

(***************************************************************************)
(* The entries of a batch retrieval                                        *)
(***************************************************************************)
\* what GitHub answers for the file an entry names
OwnFile(up, entry) ==
    LET repoInfo == ParseGitHubRepo(entry.repo)
    IN  GitHubFile(up, [owner |-> repoInfo[1].owner, repo |-> repoInfo[1].repo,
                        path |-> entry.path])

\* C25: every entry a batch retrieval returns carries the content or error
\* of the fetch for its own owner, repository and path, also when two
\* selected hits have the same repository name and path under different
\* owners.
C25_EntryCarriesItsOwnFile ==
    IsBatch /\ ret.result.success
        => \A i \in 1..Len(ret.result.files) :
              LET entry == ret.result.files[i]
              IN  ParseGitHubRepo(entry.repo) # None
                    => /\ entry.content = OwnFile(ret.up, entry).content
                       /\ entry.error = OwnFile(ret.up, entry).error

(***************************************************************************)
(* Files without a matched line                                            *)
(***************************************************************************)
\* every (repository, path) of the aggregate maps to at least one line
EveryFileHasALine(hits) ==
    \A i \in 1..Len(hits) : \A j \in 1..Len(hits[i].paths) :
        DOMAIN hits[i].paths[j].lines # {}

\* C26: every (repository, path) pair present in an aggregate built by addHit
\* and mergeHits maps to at least one matched line, so the numbered
\* formatter always finds a first match for each file it lists.
C26_EveryFileHasAMatchedLine ==
    /\ ret.op = "mergeHits" => EveryFileHasALine(ret.merged)
    /\ ret.op = "formatResultsAsNumberedList"
          => EveryFileHasALine(ret.hits) /\ ~ret.out.threw

(***************************************************************************)
(* One record per query                                                    *)
(***************************************************************************)
\* the key search.ts writes the records of a search for q under
QueryKey(q) == GenerateCacheKey([query |-> q, page |-> None])

\* the last call was a page fetch or the return of the search tool
ToolWrote == (IsFetch /\ ret.by = "searchTool") \/ (ret.op = "searchTool" /\ ~ret.threw)

\* C27: at most one persisted record exists per query string: every write a
\* search makes for query q, per page and final, lands on the same key, so
\* findCacheFiles(q) returns at most one record and each new write for q
\* replaces the previous one.
C27_OneRecordPerQuery ==
    /\ \A q \in Queries : Matching(files, q) \subseteq {QueryKey(q)}
    /\ \A q \in Queries, listing \in Readdir(files) :
          Len(FindCacheFiles(files, q, listing)) <= 1
    /\ ToolWrote => /\ Matching(files, ret.args.query) = {QueryKey(ret.args.query)}
                    /\ files[QueryKey(ret.args.query)].entry.data.hits = ret.hits
                    /\ files[QueryKey(ret.args.query)].entry.data.nextPage = ret.nextPage

\* a search returned after a tick: its final write replaced the record of its
\* page, and another query's record is in the directory too
C27_Witness ==
    /\ ret.op = "searchTool" /\ ~ret.threw
    /\ Cardinality(DOMAIN files) = 2
    /\ now > 0
    /\ files[QueryKey(ret.args.query)].entry.timestamp = now
    /\ Matching(files, ret.args.query) = {QueryKey(ret.args.query)}

(***************************************************************************)
(* getCachedData step by step, beside a concurrent cacheData               *)
(***************************************************************************)
\* readFile, JSON.parse and the expiry check of getCachedData: a miss and a
\* live entry return at once, an expired entry leaves the unlink to come
GetCachedDataRead ==
    /\ call = Idle
    /\ \E cacheKey \in CacheKeys :
         IF cacheKey \notin DOMAIN files
         THEN /\ call' = Idle
              /\ ret' = [op |-> "getCachedData", key |-> cacheKey, entry |-> None,
                         deleted |-> None]
         ELSE IF now - files[cacheKey].entry.timestamp > CACHE_TTL
         THEN /\ call' = [op |-> "getCachedData", pc |-> "unlink", key |-> cacheKey]
              /\ ret' = [op |-> "readFile", key |-> cacheKey]
         ELSE /\ call' = Idle
              /\ ret' = [op |-> "getCachedData", key |-> cacheKey,
                         entry |-> Some(files[cacheKey].entry), deleted |-> None]
    /\ UNCHANGED <<files, now, done, keyIn, hitsIn, fetches>>

\* await fs.unlink(cacheFile).catch(() => {}); return null: whatever record
\* the path names now is removed
GetCachedDataUnlink ==
    /\ call # Idle /\ call.op = "getCachedData" /\ call.pc = "unlink"
    /\ files' = IF call.key \in DOMAIN files THEN Remove(files, call.key) ELSE files
    /\ ret' = [op |-> "getCachedData", key |-> call.key, entry |-> None,
               deleted |-> IF call.key \in DOMAIN files
                           THEN Some(files[call.key].entry) ELSE None]
    /\ call' = Idle
    /\ UNCHANGED <<now, done, keyIn, hitsIn, fetches>>

NextRace == GetCachedDataRead \/ GetCachedDataUnlink \/ CacheDataCall \/ Tick
SpecRace == Init /\ [][NextRace]_vars

\* C29: a cache record that is within its TTL is never deleted by an
\* expired-entry lookup, also when a concurrent cacheData writes a fresh
\* record for the key between the lookup's read and its unlink.
C29_LookupDeletesOnlyExpiredRecords ==
    ret.op = "getCachedData" /\ ret.deleted # None
        => now - ret.deleted[1].timestamp > CACHE_TTL

\* C30: every progress report a search makes satisfies
\* 0 <= progress <= total, the first report and the report after the last
\* page included.
C30_ProgressWithinTotal ==
    Reported => 0 <= ret.progress /\ ret.progress <= ret.total

====
